---------------------------- MODULE Spec2Model ----------------------------
(***************************************************************************)
(* The RPM header codec of src/rpm/headers/header.rs: IndexHeader,         *)
(* IndexEntry, IndexData and Header<T> (parse, write, from_entries, the    *)
(* signature specialisation and the typed accessors).                      *)
(*                                                                         *)
(* Representation.                                                         *)
(*  - a byte is an integer 0..255, a byte string a sequence of bytes;      *)
(*  - a 32-bit word (u32 or i32) is the integer with the same two's        *)
(*    complement bit pattern taken as an i32: a u32 of 2^31 or more is a   *)
(*    negative number here (TLC's integers are 32 bits wide);              *)
(*  - an i64 is the pair <<hi, lo>> of its two 32-bit words;               *)
(*  - a String is the sequence of its code points;                         *)
(*  - IndexData is [type |-> wire type code, v |-> payload];               *)
(*  - a Result is a record with ok = TRUE (Ok) or ok = FALSE and err       *)
(*    (Err), and err = "panic" is a Rust panic that unwinds to the caller. *)
(***************************************************************************)
EXTENDS Integers, Sequences, FiniteSets, TLC

VARIABLES
    T,        \* the tag enumeration the run instantiates Header<T> with
    records,  \* the caller's Vec<IndexEntry<T>> (actual_records)
    call,     \* the arguments of the constructor call that built `header`
    header,   \* the Header<T> held by the caller (NoHeader before one exists)
    out,      \* the byte sink written by write / write_signature
    input,    \* the bytes of the reader handed to the parsers
    parsed,   \* the Result of the last parse or accessor call
    pc,       \* which operation ran last
    signature \* the Header<IndexSignatureTag> written ahead of `header` in a stream

vars == <<T, records, call, header, out, input, parsed, pc, signature>>

-----------------------------------------------------------------------------
(* Bounds of the model *)

\* real entries in a synthesized header (Spec)
MaxRecords == 2
\* real entries in the headers whose bytes are tampered with (SpecBytes)
MaxSeedRecords == 1
\* entries in the headers the file-name accessor reads (SpecAccess)
\* entries of a header the typed accessors are called on
MaxEntryRecords == 2

\* entries of the main header that follows a signature header in a stream
MaxStreamRecords == 2

MaxFileRecords == 3

-----------------------------------------------------------------------------
(* Sequences and machine words *)

Min(a, b) == IF a < b THEN a ELSE b

Drop(s, n) == SubSeq(s, n + 1, Len(s))

Take(s, n) == SubSeq(s, 1, n)

Zeros(n) == [i \in 1..n |-> 0]

RECURSIVE Concat(_)
Concat(ss) == IF Len(ss) = 0 THEN <<>> ELSE Head(ss) \o Concat(Tail(ss))

\* the low and high 16 bits of a 32-bit word
Lo16(x) == x % 65536
Hi16(x) == (x \div 65536) % 65536

Word(hi, lo) == IF hi >= 32768 THEN (hi - 65536) * 65536 + lo ELSE hi * 65536 + lo

\* u32 comparison and arithmetic on bit patterns
U32Lt(a, b) ==
    IF a >= 0 THEN (b < 0 \/ a < b) ELSE (b < 0 /\ a < b)

U32Le(a, b) == a = b \/ U32Lt(a, b)

\* wrapping a + b, and whether the u32 sum overflowed
Carried(hi, lo) == [v |-> Word(hi % 65536, lo % 65536), overflow |-> hi >= 65536]

U32Add(a, b) ==
    Carried(Hi16(a) + Hi16(b) + ((Lo16(a) + Lo16(b)) \div 65536), Lo16(a) + Lo16(b))

\* wrapping a * 16, and whether the u32 product overflowed
U32Mul16(a) ==
    Carried(Hi16(a) * 16 + ((Lo16(a) * 16) \div 65536), Lo16(a) * 16)

\* to_be_bytes of u8 / i8 / i16 / u32 / i32 / i64
be8(x) == <<x % 256>>
be16(x) == <<(x % 65536) \div 256, x % 256>>
be32(x) == <<Hi16(x) \div 256, Hi16(x) % 256, Lo16(x) \div 256, Lo16(x) % 256>>
be64(x) == be32(x[1]) \o be32(x[2])

\* nom's be_u8 / be_i8 / be_i16 / be_u32 / be_i32 / be_i64 on the front of b
be_u8(b) == b[1]
be_i8(b) == IF b[1] >= 128 THEN b[1] - 256 ELSE b[1]
be_i16(b) == IF b[1] >= 128 THEN b[1] * 256 + b[2] - 65536 ELSE b[1] * 256 + b[2]
be_u32(b) == Word(b[1] * 256 + b[2], b[3] * 256 + b[4])
be_i32(b) == be_u32(b)
be_i64(b) == <<be_u32(b), be_u32(Drop(b, 4))>>

-----------------------------------------------------------------------------
(* Strings: UTF-8 *)

NUL == 0
REPLACEMENT == 65533

\* str::as_bytes of one char
Utf8Char(c) ==
    IF c < 128 THEN <<c>>
    ELSE IF c < 2048 THEN <<192 + (c \div 64), 128 + (c % 64)>>
    ELSE IF c < 65536
         THEN <<224 + (c \div 4096), 128 + ((c \div 64) % 64), 128 + (c % 64)>>
         ELSE <<240 + (c \div 262144), 128 + ((c \div 4096) % 64),
                128 + ((c \div 64) % 64), 128 + (c % 64)>>

RECURSIVE as_bytes(_)
as_bytes(s) == IF s = <<>> THEN <<>> ELSE Utf8Char(Head(s)) \o as_bytes(Tail(s))

IsCont(b, i) == i <= Len(b) /\ b[i] >= 128 /\ b[i] <= 191

\* whether b[i] may follow the lead byte `lead` of a 3 or 4 byte sequence
SecondOk(b, i, lead) ==
    /\ i <= Len(b)
    /\ b[i] >= (IF lead = 224 THEN 160 ELSE IF lead = 240 THEN 144 ELSE 128)
    /\ b[i] <= (IF lead = 237 THEN 159 ELSE IF lead = 244 THEN 143 ELSE 191)

\* String::from_utf8_lossy: every maximal invalid part becomes U+FFFD
RECURSIVE from_utf8_lossy(_)
from_utf8_lossy(b) ==
    IF b = <<>> THEN <<>>
    ELSE LET x == b[1] IN
         IF x < 128 THEN <<x>> \o from_utf8_lossy(Drop(b, 1))
         ELSE IF x >= 194 /\ x <= 223 THEN
              IF IsCont(b, 2)
              THEN <<(x - 192) * 64 + (b[2] - 128)>> \o from_utf8_lossy(Drop(b, 2))
              ELSE <<REPLACEMENT>> \o from_utf8_lossy(Drop(b, 1))
         ELSE IF x >= 224 /\ x <= 239 THEN
              IF ~SecondOk(b, 2, x) THEN <<REPLACEMENT>> \o from_utf8_lossy(Drop(b, 1))
              ELSE IF ~IsCont(b, 3) THEN <<REPLACEMENT>> \o from_utf8_lossy(Drop(b, 2))
              ELSE <<(x - 224) * 4096 + (b[2] - 128) * 64 + (b[3] - 128)>>
                   \o from_utf8_lossy(Drop(b, 3))
         ELSE IF x >= 240 /\ x <= 244 THEN
              IF ~SecondOk(b, 2, x) THEN <<REPLACEMENT>> \o from_utf8_lossy(Drop(b, 1))
              ELSE IF ~IsCont(b, 3) THEN <<REPLACEMENT>> \o from_utf8_lossy(Drop(b, 2))
              ELSE IF ~IsCont(b, 4) THEN <<REPLACEMENT>> \o from_utf8_lossy(Drop(b, 3))
              ELSE <<(x - 240) * 262144 + (b[2] - 128) * 4096
                      + (b[3] - 128) * 64 + (b[4] - 128)>>
                   \o from_utf8_lossy(Drop(b, 4))
         ELSE <<REPLACEMENT>> \o from_utf8_lossy(Drop(b, 1))

\* nom's complete::take_till(|item| item == 0): the bytes before the first NUL,
\* all of b when it holds none; never an error
RECURSIVE take_till_nul(_)
take_till_nul(b) ==
    IF b = <<>> \/ b[1] = NUL THEN <<>> ELSE <<b[1]>> \o take_till_nul(Drop(b, 1))

-----------------------------------------------------------------------------
(* Constants of the crate (constants.rs) *)

HEADER_MAGIC == <<142, 173, 232>>

HEADER_SIGNATURES == 62
HEADER_IMMUTABLE == 63
RPMSIGTAG_SIZE == 1000
RPMSIGTAG_PGP == 1002
RPMSIGTAG_MD5 == 1004
RPMSIGTAG_RSA == 268
RPMSIGTAG_SHA1 == 269
RPMTAG_DIRINDEXES == 1116
RPMTAG_BASENAMES == 1117
RPMTAG_DIRNAMES == 1118

SIG == "IndexSignatureTag"

TagTypes == {SIG, "IndexTag"}

\* the numbers num::FromPrimitive::from_u32 maps to a tag of enumeration t
\* (the part of each enumeration the model uses)
KnownTags(t) ==
    IF t = SIG
    THEN {HEADER_SIGNATURES, RPMSIGTAG_RSA, RPMSIGTAG_SHA1} \cup (1000..1007)
    ELSE {HEADER_SIGNATURES, HEADER_IMMUTABLE}
         \cup (1000..1007)
         \cup {RPMTAG_DIRINDEXES, RPMTAG_BASENAMES, RPMTAG_DIRNAMES}

-----------------------------------------------------------------------------
(* IndexData *)

Null == [type |-> 0, v |-> <<>>]
Char(d) == [type |-> 1, v |-> d]
Int8(d) == [type |-> 2, v |-> d]
Int16(d) == [type |-> 3, v |-> d]
Int32(d) == [type |-> 4, v |-> d]
Int64(d) == [type |-> 5, v |-> d]
StringTag(s) == [type |-> 6, v |-> s]
Bin(d) == [type |-> 7, v |-> d]
StringArray(d) == [type |-> 8, v |-> d]
I18NString(d) == [type |-> 9, v |-> d]

IndexData_to_u32(data) == data.type

IndexData_from_u32(i) ==
    IF i >= 0 /\ i <= 9
    THEN [some |-> TRUE, data |-> [type |-> i, v |-> <<>>]]
    ELSE [some |-> FALSE]

IndexData_num_items(data) ==
    IF data.type = 0 THEN 0
    ELSE IF data.type = 6 THEN 1
    ELSE Len(data.v)

\* fmt::Display for IndexData
IndexData_to_string(data) ==
    <<"Null", "Char", "i8", "i16", "i32", "i64", "String", "Bin",
      "StringArray", "I18NString">>[data.type + 1]

NulTerminated(s) == as_bytes(s) \o <<NUL>>

\* a variant of AlignTo that pads a full unit when the length is already aligned
AlignTo_unguarded(len, n) == n - (len % n)

\* the `while store.len() % n > 0 { store.push(0) }` of append
AlignTo(len, n) == IF len % n = 0 THEN 0 ELSE n - (len % n)

\* the alignment padding append pushes before the items
Alignment(ty, len) ==
    IF ty = 3 THEN (IF len % 2 # 0 THEN 1 ELSE 0)
    ELSE IF ty = 4 THEN AlignTo(len, 4)
    ELSE IF ty = 5 THEN AlignTo(len, 8)
    ELSE 0

\* the bytes append pushes for the items
Encoded(ty, d) ==
    IF ty = 0 THEN <<>>
    ELSE IF ty = 1 \/ ty = 7 THEN d
    ELSE IF ty = 2 THEN Concat([i \in 1..Len(d) |-> be8(d[i])])
    ELSE IF ty = 3 THEN Concat([i \in 1..Len(d) |-> be16(d[i])])
    ELSE IF ty = 4 THEN Concat([i \in 1..Len(d) |-> be32(d[i])])
    ELSE IF ty = 5 THEN Concat([i \in 1..Len(d) |-> be64(d[i])])
    ELSE IF ty = 6 THEN NulTerminated(d)
    ELSE Concat([i \in 1..Len(d) |-> NulTerminated(d[i])])

\* IndexData::append: the store after the call and the alignment it returns
IndexData_append(data, store) ==
    [store |-> store \o Zeros(Alignment(data.type, Len(store)))
                     \o Encoded(data.type, data.v),
     alignment |-> Alignment(data.type, Len(store))]

IndexData_as_str(data) ==
    IF data.type = 6 THEN [some |-> TRUE, v |-> data.v] ELSE [some |-> FALSE]

IndexData_as_i32(data) ==
    IF data.type = 4 /\ data.v # <<>>
    THEN [some |-> TRUE, v |-> data.v[1]] ELSE [some |-> FALSE]

IndexData_as_i32_array(data) ==
    IF data.type = 4 THEN [some |-> TRUE, v |-> data.v] ELSE [some |-> FALSE]

IndexData_as_i64(data) ==
    IF data.type = 5 /\ data.v # <<>>
    THEN [some |-> TRUE, v |-> data.v[1]] ELSE [some |-> FALSE]

IndexData_as_string_array(data) ==
    IF data.type = 8 \/ data.type = 9
    THEN [some |-> TRUE, v |-> data.v] ELSE [some |-> FALSE]

IndexData_as_binary(data) ==
    IF data.type = 7 THEN [some |-> TRUE, v |-> data.v] ELSE [some |-> FALSE]

-----------------------------------------------------------------------------
(* IndexEntry<T> *)

IndexEntry_new(tag, offset, data) ==
    [tag |-> tag, data |-> data, offset |-> offset,
     num_items |-> IndexData_num_items(data)]

\* IndexEntry::write_index: the 16 bytes of the directory record
IndexEntry_write_index(entry) ==
    be32(entry.tag) \o be32(IndexData_to_u32(entry.data))
        \o be32(entry.offset) \o be32(entry.num_items)

\* IndexEntry::parse: a skeleton entry and the rest of the input
EntryParsed(t, bytes, raw_tag, raw_tag_type, data) ==
    IF raw_tag \notin KnownTags(t)
    THEN [ok |-> FALSE, err |-> "InvalidTag", raw_tag |-> raw_tag, store_type |-> t]
    ELSE IF Len(bytes) < 8 THEN [ok |-> FALSE, err |-> "Nom"]
    ELSE IF ~data.some
    THEN [ok |-> FALSE, err |-> "InvalidTagDataType",
          raw_data_type |-> raw_tag_type, store_type |-> t]
    ELSE IF Len(bytes) < 16 THEN [ok |-> FALSE, err |-> "Nom"]
    ELSE [ok |-> TRUE,
          rest |-> Drop(bytes, 16),
          entry |-> [tag |-> raw_tag, data |-> data.data,
                     offset |-> be_i32(Drop(bytes, 8)),
                     num_items |-> be_u32(Drop(bytes, 12))]]

EntryTyped(t, bytes, raw_tag, raw_tag_type) ==
    EntryParsed(t, bytes, raw_tag, raw_tag_type, IndexData_from_u32(raw_tag_type))

IndexEntry_parse(t, bytes) ==
    IF Len(bytes) < 4 THEN [ok |-> FALSE, err |-> "Nom"]
    ELSE EntryTyped(t, bytes, be_u32(bytes),
                    IF Len(bytes) < 8 THEN 0 ELSE be_u32(Drop(bytes, 4)))

-----------------------------------------------------------------------------
(* IndexHeader *)

IndexHeader_new(num_entries, header_size) ==
    [magic |-> HEADER_MAGIC, version |-> 1,
     num_entries |-> num_entries, header_size |-> header_size]

\* a variant of IndexHeader::write that emits the constant magic
IndexHeader_write_constant_magic(ih) ==
    HEADER_MAGIC \o be8(ih.version) \o Zeros(4)
        \o be32(ih.num_entries) \o be32(ih.header_size)

IndexHeader_write(ih) ==
    ih.magic \o be8(ih.version) \o Zeros(4)
        \o be32(ih.num_entries) \o be32(ih.header_size)

\* a variant of IndexHeader::parse that compares all three magic bytes
IndexHeader_parse_three_magic(bytes) ==
    IF Len(bytes) < 3 THEN [ok |-> FALSE, err |-> "Nom"]
    ELSE IF \E i \in 1..3 : HEADER_MAGIC[i] # bytes[i]
    THEN [ok |-> FALSE, err |-> "InvalidMagic",
          expected |-> HEADER_MAGIC[CHOOSE i \in 1..3 :
                          /\ HEADER_MAGIC[i] # bytes[i]
                          /\ \A j \in 1..(i - 1) : HEADER_MAGIC[j] = bytes[j]],
          actual |-> bytes[CHOOSE i \in 1..3 :
                          /\ HEADER_MAGIC[i] # bytes[i]
                          /\ \A j \in 1..(i - 1) : HEADER_MAGIC[j] = bytes[j]],
          complete_input |-> bytes]
    ELSE IF Len(bytes) < 4 THEN [ok |-> FALSE, err |-> "Nom"]
    ELSE IF bytes[4] # 1
    THEN [ok |-> FALSE, err |-> "UnsupportedHeaderVersion", version |-> bytes[4]]
    ELSE IF Len(bytes) < 16 THEN [ok |-> FALSE, err |-> "Nom"]
    ELSE [ok |-> TRUE,
          v |-> [magic |-> Take(bytes, 3), version |-> 1,
                 num_entries |-> be_u32(Drop(bytes, 8)),
                 header_size |-> be_u32(Drop(bytes, 12))]]

\* IndexHeader::parse of the 16 bytes read by Header::parse
IndexHeader_parse(bytes) ==
    IF Len(bytes) < 3 THEN [ok |-> FALSE, err |-> "Nom"]
    ELSE IF HEADER_MAGIC[1] # bytes[1]
    THEN [ok |-> FALSE, err |-> "InvalidMagic", expected |-> HEADER_MAGIC[1],
          actual |-> bytes[1], complete_input |-> bytes]
    ELSE IF HEADER_MAGIC[2] # bytes[2]
    THEN [ok |-> FALSE, err |-> "InvalidMagic", expected |-> HEADER_MAGIC[2],
          actual |-> bytes[2], complete_input |-> bytes]
    ELSE IF Len(bytes) < 4 THEN [ok |-> FALSE, err |-> "Nom"]
    ELSE IF bytes[4] # 1
    THEN [ok |-> FALSE, err |-> "UnsupportedHeaderVersion", version |-> bytes[4]]
    ELSE IF Len(bytes) < 16 THEN [ok |-> FALSE, err |-> "Nom"]
    ELSE [ok |-> TRUE,
          v |-> [magic |-> Take(bytes, 3), version |-> 1,
                 num_entries |-> be_u32(Drop(bytes, 8)),
                 header_size |-> be_u32(Drop(bytes, 12))]]

-----------------------------------------------------------------------------
(* Header<T>: synthesis and write *)

NoHeader == [index_header |-> IndexHeader_new(0, 0), index_entries |-> <<>>,
             store |-> <<>>, none |-> TRUE]

\* a variant of create_region_tag that does not count the sentinel itself
Header_create_region_tag_uncounted(tag, records_count, offset) ==
    IndexEntry_new(tag, offset,
        Bin(IndexEntry_write_index(
            [IndexEntry_new(tag, records_count * (-16), Bin(<<>>))
                EXCEPT !.num_items = 16])))

Header_create_region_tag(tag, records_count, offset) ==
    IndexEntry_new(tag, offset,
        Bin(IndexEntry_write_index(
            [IndexEntry_new(tag, (records_count + 1) * (-16), Bin(<<>>))
                EXCEPT !.num_items = 16])))

\* a variant of the loop body that takes the offset before the alignment padding
RECURSIVE AppendRecords(_, _, _)
Placed_before_padding(actual_records, done, store, r) ==
    AppendRecords(Tail(actual_records),
                  Append(done, [Head(actual_records) EXCEPT !.offset = Len(store)]),
                  r.store)

\* the first loop of from_entries: the records with their offsets, and the store
Placed(actual_records, done, store, r) ==
    AppendRecords(Tail(actual_records),
                  Append(done, [Head(actual_records)
                                   EXCEPT !.offset = Len(store) + r.alignment]),
                  r.store)

AppendRecords(actual_records, done, store) ==
    IF actual_records = <<>> THEN [records |-> done, store |-> store]
    ELSE Placed(actual_records, done, store,
                IndexData_append(Head(actual_records).data, store))

\* a variant of the end of from_entries that rounds header_size up to 8
Assembled_rounded(all_records, store) ==
    [index_header |-> IndexHeader_new(Len(all_records),
                                      Len(store) + AlignTo(Len(store), 8)),
     index_entries |-> all_records,
     store |-> store]

\* the end of from_entries: Header { index_entries, index_header, store }
Assembled(all_records, store) ==
    [index_header |-> IndexHeader_new(Len(all_records), Len(store)),
     index_entries |-> all_records,
     store |-> store]

\* the sentinel goes first, its payload last in the store
WithRegion(actual_records, store, region) ==
    Assembled(<<region>> \o actual_records, IndexData_append(region.data, store).store)

Appended(a, region_tag) ==
    WithRegion(a.records, a.store,
               Header_create_region_tag(region_tag, Len(a.records), Len(a.store)))

Header_from_entries(actual_records, region_tag) ==
    Appended(AppendRecords(actual_records, <<>>, <<>>), region_tag)

Header_write(h) ==
    IndexHeader_write(h.index_header)
        \o Concat([i \in 1..Len(h.index_entries) |->
                      IndexEntry_write_index(h.index_entries[i])])
        \o h.store

\* a variant of write_signature that pads by the remainder itself
Header_write_signature_modulo(h) ==
    Header_write(h) \o Zeros(h.index_header.header_size % 8)

\* a variant of write_signature without the `if modulo > 0` guard
Header_write_signature_unguarded(h) ==
    Header_write(h) \o Zeros(8 - (h.index_header.header_size % 8))

Header_write_signature(h) ==
    Header_write(h)
        \o (IF h.index_header.header_size % 8 > 0
            THEN Zeros(8 - (h.index_header.header_size % 8)) ELSE <<>>)

-----------------------------------------------------------------------------
(* Header<T>::parse *)

Panic == [ok |-> FALSE, err |-> "panic"]

\* the parser_fn parse hands to parse_entry_data_number for a type, and its width
parser_fn(ty, bytes) ==
    IF ty = 1 \/ ty = 7 THEN be_u8(bytes)
    ELSE IF ty = 2 THEN be_i8(bytes)
    ELSE IF ty = 3 THEN be_i16(bytes)
    ELSE IF ty = 4 THEN be_i32(bytes)
    ELSE be_i64(bytes)

parser_width(ty) == IF ty = 3 THEN 2 ELSE IF ty = 4 THEN 4 ELSE IF ty = 5 THEN 8 ELSE 1

\* parse_entry_data_number: num_items values read by the parser_fn of type `ty`
RECURSIVE parse_entry_data_number(_, _, _, _, _)
parse_entry_data_number(bytes, num_items, ty, i, items) ==
    IF ~U32Lt(i, num_items) THEN [ok |-> TRUE, items |-> items]
    ELSE IF Len(bytes) < parser_width(ty) THEN [ok |-> FALSE, err |-> "Nom"]
    ELSE parse_entry_data_number(Drop(bytes, parser_width(ty)), num_items, ty,
                                 i + 1, Append(items, parser_fn(ty, bytes)))

\* the StringArray loop of parse: `remaining = &rest[1..]` panics on an empty rest
RECURSIVE ParseStringArray(_, _, _, _)
StringArrayStep(remaining, raw_string, num_items, i, strings) ==
    IF Len(raw_string) = Len(remaining) THEN Panic
    ELSE ParseStringArray(Drop(remaining, Len(raw_string) + 1), num_items, i + 1,
                          Append(strings, from_utf8_lossy(raw_string)))

ParseStringArray(remaining, num_items, i, strings) ==
    IF ~U32Lt(i, num_items) THEN [ok |-> TRUE, items |-> strings]
    ELSE StringArrayStep(remaining, take_till_nul(remaining), num_items, i, strings)

\* the I18NString loop of parse: `remaining = rest` stays on the NUL, so every
\* element after the first is the empty string. With more strings than the store
\* has bytes, `more` counts the empty strings that follow the first
I18NStrings(first, num_items, len) ==
    IF num_items > 0 /\ num_items <= len + 1
    THEN [ok |-> TRUE, more |-> 0,
          items |-> [k \in 1..num_items |-> IF k = 1 THEN first ELSE <<>>]]
    ELSE [ok |-> TRUE, items |-> <<first>>, more |-> num_items - 1]

ParseI18NString(remaining, num_items) ==
    IF num_items = 0 THEN [ok |-> TRUE, items |-> <<>>, more |-> 0]
    ELSE I18NStrings(from_utf8_lossy(take_till_nul(remaining)), num_items,
                     Len(remaining))

\* the match of the second loop of parse: the items of the entry's data
FillData(ty, remaining, n) ==
    IF ty = 0 THEN [ok |-> TRUE, items |-> <<>>]
    ELSE IF ty \in {1, 2, 3, 4, 5, 7}
         THEN parse_entry_data_number(remaining, n, ty, 0, <<>>)
    ELSE IF ty = 6
         THEN [ok |-> TRUE, items |-> from_utf8_lossy(take_till_nul(remaining))]
    ELSE IF ty = 8 THEN ParseStringArray(remaining, n, 0, <<>>)
    ELSE ParseI18NString(remaining, n)

\* the entry with its data filled in
Filled(entry, r) ==
    IF ~r.ok THEN r
    ELSE IF entry.data.type = 9 /\ r.more # 0
    THEN [ok |-> TRUE,
          entry |-> [entry EXCEPT !.data = [type |-> 9, v |-> r.items,
                                            more |-> r.more]]]
    ELSE [ok |-> TRUE,
          entry |-> [entry EXCEPT !.data = [type |-> entry.data.type,
                                            v |-> r.items]]]

\* `&bytes[entry.offset as usize..]` panics on an offset outside the store
FillEntry(entry, bytes) ==
    IF entry.offset < 0 \/ entry.offset > Len(bytes) THEN Panic
    ELSE Filled(entry,
                FillData(entry.data.type, Drop(bytes, entry.offset), entry.num_items))

\* the first loop of parse: num_entries directory records
RECURSIVE ParseDirectory(_, _, _, _, _)
DirectoryStep(t, bytes, r, num_entries, i, entries) ==
    IF ~r.ok THEN r
    ELSE IF Len(bytes) - Len(r.rest) # 16 THEN Panic
    ELSE ParseDirectory(t, r.rest, num_entries, i + 1, Append(entries, r.entry))

ParseDirectory(t, bytes, num_entries, i, entries) ==
    IF ~U32Lt(i, num_entries) THEN [ok |-> TRUE, entries |-> entries, rest |-> bytes]
    ELSE DirectoryStep(t, bytes, IndexEntry_parse(t, bytes), num_entries, i, entries)

\* the second loop of parse: the first entry that fails ends it
RECURSIVE FillEntries(_, _, _)
FillStep(entries, bytes, r, done) ==
    IF ~r.ok THEN r ELSE FillEntries(Tail(entries), bytes, Append(done, r.entry))

FillEntries(entries, bytes, done) ==
    IF entries = <<>> THEN [ok |-> TRUE, entries |-> done]
    ELSE FillStep(entries, bytes, FillEntry(Head(entries), bytes), done)

\* the end of parse: Ok(Header { index_header, index_entries, store })
ParseOk(index_header, store, filled, consumed) ==
    IF ~filled.ok THEN filled
    ELSE [ok |-> TRUE,
          consumed |-> consumed,
          header |-> [index_header |-> index_header,
                      index_entries |-> filled.entries,
                      store |-> store]]

\* parse after the directory: the store and the entries' data
ParseStore(index_header, dir, consumed) ==
    IF ~dir.ok THEN dir
    ELSE IF Len(dir.rest) # index_header.header_size THEN Panic
    ELSE ParseOk(index_header, dir.rest,
                 FillEntries(dir.entries, dir.rest, <<>>), consumed)

\* parse after the second read_exact
ParseBuffer(t, inp, index_header, size) ==
    IF U32Lt(Len(inp) - 16, size) THEN [ok |-> FALSE, err |-> "Io"]
    ELSE ParseStore(index_header,
                    ParseDirectory(t, SubSeq(inp, 17, 16 + size),
                                   index_header.num_entries, 0, <<>>),
                    16 + size)

\* the u32 `header_size + num_entries * 16`: overflow panics when the build
\* checks it (debug) and wraps when it does not (release)
ParseSized(t, inp, index_header, dirsize, overflow_checks) ==
    IF dirsize.overflow /\ overflow_checks THEN Panic
    ELSE IF U32Add(index_header.header_size, dirsize.v).overflow /\ overflow_checks
    THEN Panic
    ELSE ParseBuffer(t, inp, index_header,
                     U32Add(index_header.header_size, dirsize.v).v)

ParseIndexed(t, inp, ih, overflow_checks) ==
    IF ~ih.ok THEN ih
    ELSE ParseSized(t, inp, ih.v, U32Mul16(ih.v.num_entries), overflow_checks)

\* Header::parse on a reader holding `inp`
Header_parse(t, inp, overflow_checks) ==
    IF Len(inp) < 16 THEN [ok |-> FALSE, err |-> "Io"]
    ELSE ParseIndexed(t, inp, IndexHeader_parse(Take(inp, 16)), overflow_checks)

\* the padding parse_signature discards after the header
SkipPadding(inp, result, align_size) ==
    IF Len(inp) - result.consumed < align_size THEN [ok |-> FALSE, err |-> "Io"]
    ELSE [result EXCEPT !.consumed = @ + align_size]

SignaturePad(header_size) ==
    IF header_size % 8 > 0 THEN 8 - (header_size % 8) ELSE 0

ParsedSignature(inp, result) ==
    IF ~result.ok THEN result
    ELSE SkipPadding(inp, result, SignaturePad(result.header.index_header.header_size))

Header_parse_signature(inp, overflow_checks) ==
    ParsedSignature(inp, Header_parse(SIG, inp, overflow_checks))

-----------------------------------------------------------------------------
(* The signature header builder and the typed accessors *)

\* SignatureHeaderBuilder: the entries it has collected
SignatureHeaderBuilder_new == <<>>

SignatureHeaderBuilder_add_digest(entries, sha1, md5sum) ==
    entries \o <<IndexEntry_new(RPMSIGTAG_MD5, 0, Bin(md5sum)),
                 IndexEntry_new(RPMSIGTAG_SHA1, 0, StringTag(sha1))>>

SignatureHeaderBuilder_add_signature(entries, rsa_header, rsa_header_and_archive) ==
    entries \o <<IndexEntry_new(RPMSIGTAG_RSA, 0, Bin(rsa_header)),
                 IndexEntry_new(RPMSIGTAG_PGP, 0, Bin(rsa_header_and_archive))>>

SignatureHeaderBuilder_build(entries, size) ==
    Header_from_entries(
        <<IndexEntry_new(RPMSIGTAG_SIZE, 0, Int32(<<size>>))>> \o entries,
        HEADER_SIGNATURES)

\* a variant of new_signature_header that hands the two signatures over swapped
Header_new_signature_header_swapped(size, md5sum, sha1, rsa_spanning_header, rsa_spanning_header_and_archive) ==
    SignatureHeaderBuilder_build(
        SignatureHeaderBuilder_add_signature(
            SignatureHeaderBuilder_add_digest(SignatureHeaderBuilder_new, sha1, md5sum),
            rsa_spanning_header_and_archive, rsa_spanning_header),
        size)

Header_new_signature_header(size, md5sum, sha1, rsa_spanning_header, rsa_spanning_header_and_archive) ==
    SignatureHeaderBuilder_build(
        SignatureHeaderBuilder_add_signature(
            SignatureHeaderBuilder_add_digest(SignatureHeaderBuilder_new, sha1, md5sum),
            rsa_spanning_header, rsa_spanning_header_and_archive),
        size)

\* a variant of find_entry_or_err that keeps the last entry with the tag
FirstOf_last(h, tag, hits) ==
    IF hits = {} THEN [ok |-> FALSE, err |-> "TagNotFound", tag |-> tag]
    ELSE [ok |-> TRUE,
          entry |-> h.index_entries[CHOOSE i \in hits : \A j \in hits : i >= j]]

\* Header::find_entry_or_err: the first entry, in order, with the tag
FirstOf(h, tag, hits) ==
    IF hits = {} THEN [ok |-> FALSE, err |-> "TagNotFound", tag |-> tag]
    ELSE [ok |-> TRUE,
          entry |-> h.index_entries[CHOOSE i \in hits : \A j \in hits : i <= j]]

Header_find_entry_or_err(h, tag) ==
    FirstOf(h, tag, {i \in 1..Len(h.index_entries) : h.index_entries[i].tag = tag})

\* the shape shared by the get_entry_X_data accessors
Typed(entry, opt, expected_data_type) ==
    IF opt.some THEN [ok |-> TRUE, v |-> opt.v]
    ELSE [ok |-> FALSE, err |-> "UnexpectedTagDataType",
          expected_data_type |-> expected_data_type,
          actual_data_type |-> IndexData_to_string(entry.data),
          tag |-> entry.tag]

\* the as_X conversion each accessor applies, named by the type it expects
AsExpected(data, expected_data_type) ==
    IF expected_data_type = "binary" THEN IndexData_as_binary(data)
    ELSE IF expected_data_type = "string" THEN IndexData_as_str(data)
    ELSE IF expected_data_type = "i32" THEN IndexData_as_i32(data)
    ELSE IF expected_data_type = "i32 array" THEN IndexData_as_i32_array(data)
    ELSE IF expected_data_type = "i64" THEN IndexData_as_i64(data)
    ELSE IndexData_as_string_array(data)

Found(found, expected_data_type) ==
    IF ~found.ok THEN found
    ELSE Typed(found.entry, AsExpected(found.entry.data, expected_data_type),
               expected_data_type)

GetEntryData(h, tag, expected_data_type) ==
    Found(Header_find_entry_or_err(h, tag), expected_data_type)

Header_get_entry_binary_data(h, tag) ==
    GetEntryData(h, tag, "binary")

Header_get_entry_string_data(h, tag) ==
    GetEntryData(h, tag, "string")

Header_get_entry_i32_data(h, tag) ==
    GetEntryData(h, tag, "i32")

Header_get_entry_i32_array_data(h, tag) ==
    GetEntryData(h, tag, "i32 array")

Header_get_entry_i64_data(h, tag) ==
    GetEntryData(h, tag, "i64")

Header_get_entry_string_array_data(h, tag) ==
    GetEntryData(h, tag, "string array")

\* the typed accessor named by the type it expects
Header_get_entry_data(h, expected_data_type, tag) ==
    IF expected_data_type = "binary" THEN Header_get_entry_binary_data(h, tag)
    ELSE IF expected_data_type = "string" THEN Header_get_entry_string_data(h, tag)
    ELSE IF expected_data_type = "i32" THEN Header_get_entry_i32_data(h, tag)
    ELSE IF expected_data_type = "i32 array" THEN Header_get_entry_i32_array_data(h, tag)
    ELSE IF expected_data_type = "i64" THEN Header_get_entry_i64_data(h, tag)
    ELSE Header_get_entry_string_array_data(h, tag)

SLASH == 47

\* PathBuf::from(dir).join(base): an absolute base replaces dir, and a separator
\* is put between the two unless dir is empty or ends with one
PathBuf_join(dir, base) ==
    IF base # <<>> /\ base[1] = SLASH THEN base
    ELSE IF dir = <<>> \/ dir[Len(dir)] = SLASH THEN dir \o base
    ELSE dir \o <<SLASH>> \o base

\* the try_fold of get_file_names over base.zip(biject)
RECURSIVE JoinFileNames(_, _, _, _, _)
JoinFileNames(base, biject, dirs, i, acc) ==
    IF i > Min(Len(base), Len(biject)) THEN [ok |-> TRUE, v |-> acc]
    ELSE IF biject[i] >= 0 /\ biject[i] < Len(dirs)
         THEN JoinFileNames(base, biject, dirs, i + 1,
                            Append(acc, PathBuf_join(dirs[biject[i] + 1], base[i])))
         ELSE [ok |-> FALSE, err |-> "InvalidTagIndex", tag |-> RPMTAG_DIRINDEXES,
               index |-> biject[i], bound |-> Len(dirs)]

FileNames(base, biject, dirs) ==
    IF ~base.ok THEN base
    ELSE IF ~biject.ok THEN biject
    ELSE IF ~dirs.ok THEN dirs
    ELSE JoinFileNames(base.v, biject.v, dirs.v, 1, <<>>)

Header_get_file_names(h) ==
    FileNames(Header_get_entry_string_array_data(h, RPMTAG_BASENAMES),
              Header_get_entry_i32_array_data(h, RPMTAG_DIRINDEXES),
              Header_get_entry_string_array_data(h, RPMTAG_DIRNAMES))

-----------------------------------------------------------------------------
(* The inputs the callers draw from *)

\* the sentinel tags a caller of from_entries passes
RegionTags(t) == IF t = SIG THEN {HEADER_SIGNATURES} ELSE {HEADER_IMMUTABLE, 1000}

\* an entry as a caller hands it to from_entries: any offset
Entry(tag, offset, data) == IndexEntry_new(tag, offset, data)

SynthPool ==
    << Entry(1000, 0, Null),
      Entry(1001, 0, Char(<<65>>)),
      Entry(1002, 5, Int8(<<1>>)),
      Entry(1003, 0, Int16(<<-2>>)),
      Entry(1004, -3, Int32(<<287454020>>)),
      Entry(1004, 0, Int32(<<-1, 209348>>)),
      Entry(1005, 0, Int64(<< <<-1, -2>> >>)),
      Entry(1006, 0, StringTag(<<97>>)),
      Entry(1006, 7, StringTag(<<>>)),
      Entry(1006, 0, StringTag(<<233, 98>>)),
      Entry(1007, 0, Bin(<<1, 2, 3>>)),
      Entry(1007, 9, StringArray(<< <<97>>, <<98>> >>)),
      Entry(1001, 0, StringArray(<<>>)),
      Entry(1000, 0, I18NString(<< <<97>> >>)),
      Entry(1000, 0, I18NString(<< <<97>>, <<98>> >>)) >>

SeedPool ==
    << Entry(1004, 0, Int32(<<287454020>>)),
      Entry(1006, 0, StringTag(<<97>>)),
      Entry(1007, 0, StringArray(<< <<97>>, <<98>> >>)),
      Entry(1000, 0, I18NString(<< <<97>>, <<98>> >>)) >>

FilePool ==
    << Entry(RPMTAG_BASENAMES, 0, StringArray(<< <<97>>, <<98>> >>)),
      Entry(RPMTAG_BASENAMES, 0, StringArray(<< <<97>> >>)),
      Entry(RPMTAG_BASENAMES, 0, StringArray(<< <<SLASH, 97>> >>)),
      Entry(RPMTAG_BASENAMES, 0, Int32(<<0>>)),
      Entry(RPMTAG_DIRINDEXES, 0, Int32(<<0, 1>>)),
      Entry(RPMTAG_DIRINDEXES, 0, Int32(<<0, 2>>)),
      Entry(RPMTAG_DIRINDEXES, 0, Int32(<<0>>)),
      Entry(RPMTAG_DIRINDEXES, 0, Int32(<<-1>>)),
      Entry(RPMTAG_DIRNAMES, 0, StringArray(<< <<SLASH, 120, SLASH>>, <<SLASH, 121, SLASH>> >>)),
      Entry(RPMTAG_DIRNAMES, 0, StringArray(<< <<SLASH, 120>> >>)),
      Entry(RPMTAG_DIRNAMES, 0, I18NString(<< <<SLASH, 120, SLASH>> >>)),
      Entry(RPMTAG_DIRNAMES, 0, StringTag(<<SLASH>>)) >>

\* entries the typed accessors look up: tags repeated with different data
EntryPool ==
    << Entry(1000, 0, Int32(<<7, 8>>)),
      Entry(1000, 0, StringTag(<<97>>)),
      Entry(1000, 0, Int32(<<>>)),
      Entry(1001, 0, Int64(<< <<0, 5>>, <<0, 6>> >>)),
      Entry(1001, 0, Int64(<<>>)),
      Entry(1001, 0, Null),
      Entry(1002, 0, Bin(<<1, 2>>)),
      Entry(1002, 0, StringArray(<< <<97>> >>)),
      Entry(1002, 0, I18NString(<< <<98>> >>)) >>

\* the accessors, by the expected_data_type they report, and the tags asked for
Accessors == {"binary", "string", "i32", "i32 array", "i64", "string array"}
AskedTags == {1000, 1001, 1002, 1003, HEADER_IMMUTABLE}

\* entries of the main header of a stream
StreamPool ==
    << Entry(1000, 0, StringTag(<<97>>)),
      Entry(1004, 0, Int32(<<287454020>>)),
      Entry(1005, 0, Int64(<< <<-1, -2>> >>)),
      Entry(1007, 0, StringArray(<< <<97>>, <<98>> >>)),
      Entry(1001, 0, I18NString(<< <<97>> >>)),
      Entry(1001, 0, I18NString(<< <<97>>, <<98>> >>)) >>

\* what follows the two headers in the stream
Payloads == {<<>>, <<31, 139, 8>>}

\* the arguments of new_signature_header
SigSizes == {209348, -1}
SigMd5s == {<<22, 22, 22, 22>>}
SigSha1s == {<<53, 65>>, <<>>}
SigRsaHeaders == {<<49, 49, 49>>, <<49>>}
SigRsaArchives == {<<55, 55, 55, 55>>}

\* the values a tampered byte takes
TamperBytes == {0, 1, 255}

\* the 16-byte inputs of IndexHeader::parse
PreambleInputs ==
    { <<b0, b1, b2, ver>> \o res \o be32(ne) \o be32(hs) :
        b0 \in {142, 173, 0}, b1 \in {173, 142, 0}, b2 \in {232, 0},
        ver \in {1, 0, 2}, res \in {Zeros(4), <<0, 0, 1, 0>>},
        ne \in {0, 1, 258}, hs \in {0, 16, -1} }

-----------------------------------------------------------------------------
(* The state machine *)

NoCall == [ctor |-> "none", region_tag |-> 0, args |-> <<>>, writer |-> "none",
           tampered |-> FALSE, reader |-> "none"]

NoResult == [ok |-> FALSE, err |-> "none"]

InitOver(tagTypes) ==
    /\ T \in tagTypes
    /\ records = <<>>
    /\ call = NoCall
    /\ header = NoHeader
    /\ signature = NoHeader
    /\ out = <<>>
    /\ input = <<>>
    /\ parsed = NoResult
    /\ pc = "collect"

Init == InitOver(TagTypes)

InitMain == InitOver({"IndexTag"})

\* the caller pushes one more entry onto its vector
PushRecord(e, max) ==
    /\ pc = "collect"
    /\ Len(records) < max
    /\ records' = Append(records, e)
    /\ UNCHANGED <<signature, T, call, header, out, input, parsed, pc>>

FromEntries(region_tag) ==
    /\ pc = "collect"
    /\ header' = Header_from_entries(records, region_tag)
    /\ call' = [call EXCEPT !.ctor = "from_entries", !.region_tag = region_tag]
    /\ pc' = "built"
    /\ UNCHANGED <<signature, T, records, out, input, parsed>>

NewSignatureHeader(size, md5sum, sha1, rsa_h, rsa_ha) ==
    /\ pc = "collect"
    /\ T = SIG
    /\ records = <<>>
    /\ header' = Header_new_signature_header(size, md5sum, sha1, rsa_h, rsa_ha)
    /\ call' = [call EXCEPT !.ctor = "new_signature_header",
                            !.args = <<size, md5sum, sha1, rsa_h, rsa_ha>>]
    /\ pc' = "built"
    /\ UNCHANGED <<signature, T, records, out, input, parsed>>

Write ==
    /\ pc = "built"
    /\ out' = Header_write(header)
    /\ call' = [call EXCEPT !.writer = "write"]
    /\ pc' = "written"
    /\ UNCHANGED <<signature, T, records, header, input, parsed>>

WriteSignature ==
    /\ pc = "built"
    /\ T = SIG
    /\ out' = Header_write_signature(header)
    /\ call' = [call EXCEPT !.writer = "write_signature"]
    /\ pc' = "written"
    /\ UNCHANGED <<signature, T, records, header, input, parsed>>

\* the bytes written become the content of a reader
Reopen ==
    /\ pc = "written"
    /\ input' = out
    /\ pc' = "ready"
    /\ UNCHANGED <<signature, T, records, call, header, out, parsed>>

\* one byte of the reader's content is not what was written
Tamper(i, b) ==
    /\ pc = "ready"
    /\ ~call.tampered
    /\ i \in 1..Len(input)
    /\ input[i] # b
    /\ input' = [input EXCEPT ![i] = b]
    /\ call' = [call EXCEPT !.tampered = TRUE]
    /\ UNCHANGED <<signature, T, records, header, out, parsed, pc>>

\* the reader's content ends one byte early
Truncate ==
    /\ pc = "ready"
    /\ ~call.tampered
    /\ input # <<>>
    /\ input' = Take(input, Len(input) - 1)
    /\ call' = [call EXCEPT !.tampered = TRUE]
    /\ UNCHANGED <<signature, T, records, header, out, parsed, pc>>

Parse(overflow_checks) ==
    /\ pc = "ready"
    /\ parsed' = Header_parse(T, input, overflow_checks)
    /\ call' = [call EXCEPT !.reader = "parse"]
    /\ pc' = "parsed"
    /\ UNCHANGED <<signature, T, records, header, out, input>>

ParseSignature(overflow_checks) ==
    /\ pc = "ready"
    /\ T = SIG
    /\ parsed' = Header_parse_signature(input, overflow_checks)
    /\ call' = [call EXCEPT !.reader = "parse_signature"]
    /\ pc' = "parsed"
    /\ UNCHANGED <<signature, T, records, header, out, input>>

\* the parsed header is written back
Rewrite ==
    /\ pc = "parsed"
    /\ call.reader = "parse"
    /\ parsed.ok
    /\ out' = Header_write(parsed.header)
    /\ pc' = "rewritten"
    /\ UNCHANGED <<signature, T, records, call, header, input, parsed>>

RewriteSignature ==
    /\ pc = "parsed"
    /\ call.reader = "parse_signature"
    /\ parsed.ok
    /\ out' = Header_write_signature(parsed.header)
    /\ pc' = "rewritten"
    /\ UNCHANGED <<signature, T, records, call, header, input, parsed>>

\* 16 bytes are handed to IndexHeader::parse
FeedPreamble(bytes) ==
    /\ pc = "collect"
    /\ input' = bytes
    /\ pc' = "fed"
    /\ UNCHANGED <<signature, T, records, call, header, out, parsed>>

IndexHeaderParse ==
    /\ pc = "fed"
    /\ parsed' = IndexHeader_parse(input)
    /\ call' = [call EXCEPT !.reader = "IndexHeader::parse"]
    /\ pc' = "parsed"
    /\ UNCHANGED <<signature, T, records, header, out, input>>

GetFileNames ==
    /\ pc = "built"
    /\ T = "IndexTag"
    /\ parsed' = Header_get_file_names(header)
    /\ call' = [call EXCEPT !.reader = "get_file_names"]
    /\ pc' = "got"
    /\ UNCHANGED <<signature, T, records, header, out, input>>

GetEntry(expected_data_type, tag) ==
    /\ pc = "built"
    /\ parsed' = Header_get_entry_data(header, expected_data_type, tag)
    /\ call' = [call EXCEPT !.reader = expected_data_type, !.args = <<tag>>]
    /\ pc' = "got"
    /\ UNCHANGED <<signature, T, records, header, out, input>>

\* the signature header of the package is built after its main header
SignStream(size, md5sum, sha1, rsa_h, rsa_ha) ==
    /\ pc = "built"
    /\ signature' = Header_new_signature_header(size, md5sum, sha1, rsa_h, rsa_ha)
    /\ pc' = "signed"
    /\ UNCHANGED <<T, records, call, header, out, input, parsed>>

\* write_signature(signature), write(header) and the payload go into one sink
WriteStream(payload) ==
    /\ pc = "signed"
    /\ out' = Header_write_signature(signature) \o Header_write(header) \o payload
    /\ call' = [call EXCEPT !.writer = "stream", !.args = <<payload>>]
    /\ pc' = "written"
    /\ UNCHANGED <<signature, T, records, header, input, parsed>>

\* parse_signature on the reader: the bytes it read are gone from the reader
ReadSignature(overflow_checks) ==
    /\ pc = "ready"
    /\ call.writer = "stream"
    /\ parsed' = Header_parse_signature(input, overflow_checks)
    /\ input' = IF parsed'.ok THEN Drop(input, parsed'.consumed) ELSE input
    /\ call' = [call EXCEPT !.reader = "parse_signature"]
    /\ pc' = "parsed_signature"
    /\ UNCHANGED <<signature, T, records, header, out>>

\* Header::parse on the same reader, after parse_signature
ReadHeader(overflow_checks) ==
    /\ pc = "parsed_signature"
    /\ parsed.ok
    /\ parsed' = Header_parse(T, input, overflow_checks)
    /\ input' = IF parsed'.ok THEN Drop(input, parsed'.consumed) ELSE input
    /\ call' = [call EXCEPT !.reader = "parse"]
    /\ pc' = "parsed"
    /\ UNCHANGED <<signature, T, records, header, out>>

\* synthesis, write and read back
Next ==
    \/ \E k \in 1..Len(SynthPool) : PushRecord(SynthPool[k], MaxRecords)
    \/ \E r \in RegionTags(T) : FromEntries(r)
    \/ \E size \in SigSizes, md5sum \in SigMd5s, sha1 \in SigSha1s,
          rsa_h \in SigRsaHeaders, rsa_ha \in SigRsaArchives :
            NewSignatureHeader(size, md5sum, sha1, rsa_h, rsa_ha)
    \/ Write
    \/ WriteSignature
    \/ Reopen
    \/ \E c \in BOOLEAN : Parse(c)
    \/ \E c \in BOOLEAN : ParseSignature(c)
    \/ Rewrite
    \/ RewriteSignature

Spec == Init /\ [][Next]_vars

\* reading bytes that are not what a writer wrote
NextBytes ==
    \/ \E k \in 1..Len(SeedPool) : PushRecord(SeedPool[k], MaxSeedRecords)
    \/ \E r \in RegionTags(T) : FromEntries(r)
    \/ Write
    \/ WriteSignature
    \/ Reopen
    \/ \E i \in 1..Len(input), b \in TamperBytes : Tamper(i, b)
    \/ Truncate
    \/ \E c \in BOOLEAN : Parse(c)
    \/ \E c \in BOOLEAN : ParseSignature(c)
    \/ Rewrite
    \/ RewriteSignature

SpecBytes == Init /\ [][NextBytes]_vars

\* IndexHeader::parse on its own
NextPreamble ==
    \/ \E bytes \in PreambleInputs : FeedPreamble(bytes)
    \/ IndexHeaderParse

SpecPreamble == InitMain /\ [][NextPreamble]_vars

\* the file-name accessor of the main header
NextAccess ==
    \/ \E k \in 1..Len(FilePool) : PushRecord(FilePool[k], MaxFileRecords)
    \/ FromEntries(HEADER_IMMUTABLE)
    \/ GetFileNames

SpecAccess == InitMain /\ [][NextAccess]_vars

\* the typed accessors of a synthesized header
NextEntry ==
    \/ \E k \in 1..Len(EntryPool) : PushRecord(EntryPool[k], MaxEntryRecords)
    \/ \E r \in RegionTags(T) : FromEntries(r)
    \/ \E x \in Accessors, tag \in AskedTags : GetEntry(x, tag)

SpecEntry == InitMain /\ [][NextEntry]_vars

\* a signature header and a main header in one stream
NextStream ==
    \/ \E k \in 1..Len(StreamPool) : PushRecord(StreamPool[k], MaxStreamRecords)
    \/ FromEntries(HEADER_IMMUTABLE)
    \/ \E size \in SigSizes, md5sum \in SigMd5s, sha1 \in SigSha1s,
          rsa_h \in SigRsaHeaders, rsa_ha \in SigRsaArchives :
            SignStream(size, md5sum, sha1, rsa_h, rsa_ha)
    \/ \E payload \in Payloads : WriteStream(payload)
    \/ Reopen
    \/ \E c \in BOOLEAN : ReadSignature(c)
    \/ \E c \in BOOLEAN : ReadHeader(c)

SpecStream == InitMain /\ [][NextStream]_vars

-----------------------------------------------------------------------------
(* Claims *)

\* the header parsed from the bytes Header::write wrote for a synthesized header
ReadBack ==
    /\ pc = "parsed"
    /\ call.ctor = "from_entries"
    /\ call.writer = "write"
    /\ call.reader = "parse"
    /\ ~call.tampered

\* C1: for every entry list E and sentinel tag R, Header::parse of the bytes
\* written by write for H = from_entries(E, R) succeeds and returns a header equal
\* to H: same index_header, same store, same entries in the same order.
C1_ParseWriteFromEntries ==
    ReadBack => (parsed.ok /\ parsed.header = header)

\* the read-back is exact for every entry list without an I18NString of two or
\* more elements (the one case in which C1 fails)
C1_ExceptLongI18N ==
    (ReadBack /\ \A k \in 1..Len(records) :
                    ~(records[k].data.type = 9 /\ Len(records[k].data.v) >= 2))
        => (parsed.ok /\ parsed.header = header)

\* Header::parse succeeded on all of the reader's bytes B and Header::write has
\* written the parsed header back
WroteBack ==
    /\ pc = "rewritten"
    /\ call.reader = "parse"
    /\ parsed.consumed = Len(input)

\* C2 as claimed: for every byte string B on which Header::parse succeeds and
\* consumes all of B, Header::write of the parsed header emits exactly B.
C2_WriteParseAnyBytes ==
    WroteBack => out = input

\* C2 as amended: the same for every such B whose reserved bytes 4..7 are zero.
C2_WriteParseZeroReserved ==
    (WroteBack /\ SubSeq(input, 5, 8) = Zeros(4)) => out = input

\* a B that no writer wrote (its third magic byte is not 0xE8) is parsed and
\* written back
C2_Witness ==
    WroteBack /\ call.tampered /\ SubSeq(input, 5, 8) = Zeros(4) /\ input[3] # 232

\* the count-th and later bytes of a well-formed entry lie in the store
DataFits(store, ty, offset, count) ==
    /\ offset >= 0 /\ offset <= Len(store)
    /\ count >= 0 /\ count <= Len(store)
    /\ IF ty = 0 THEN TRUE
       ELSE IF ty \in {1, 2, 7} THEN offset + count <= Len(store)
       ELSE IF ty = 3 THEN offset + 2 * count <= Len(store)
       ELSE IF ty = 4 THEN offset + 4 * count <= Len(store)
       ELSE IF ty = 5 THEN offset + 8 * count <= Len(store)
       ELSE Cardinality({k \in (offset + 1)..Len(store) : store[k] = NUL})
                >= (IF ty = 6 THEN 1 ELSE count)

\* b is a header of tag enumeration t as the wire format defines it: the preamble
\* (magic, version 1, zero reserved bytes), ne directory records with known tags
\* and type codes whose data lies in the store, and the hs bytes of the store
WellFormedHeader(t, b, ne, hs) ==
    /\ Take(b, 8) = HEADER_MAGIC \o <<1>> \o Zeros(4)
    /\ ne >= 0 /\ hs >= 0 /\ ne <= Len(b) /\ hs <= Len(b)
    /\ Len(b) = 16 + 16 * ne + hs
    /\ \A k \in 0..(ne - 1) :
         /\ be_u32(Drop(b, 16 + 16 * k)) \in KnownTags(t)
         /\ be_u32(Drop(b, 20 + 16 * k)) \in 0..9
         /\ DataFits(Drop(b, 16 + 16 * ne),
                     be_u32(Drop(b, 20 + 16 * k)),
                     be_u32(Drop(b, 24 + 16 * k)),
                     be_u32(Drop(b, 28 + 16 * k)))

\* b is a well-formed signature header followed by the 0..7 zero bytes that raise
\* its length to a multiple of 8
WellFormedSignature(b) ==
    /\ Len(b) >= 16
    /\ Len(b) % 8 = 0
    /\ \E p \in 0..7 :
         /\ p <= Len(b) - 16
         /\ WellFormedHeader(SIG, Take(b, Len(b) - p),
                             be_u32(Drop(b, 8)), be_u32(Drop(b, 12)))
         /\ Drop(b, Len(b) - p) = Zeros(p)

\* C3: for every byte string B that is a valid signature header followed by zero
\* padding, with a length that is a multiple of 8, parse_signature succeeds and
\* consumes all of B, and write_signature of the result emits exactly B.
C3_SignatureRoundTrip ==
    (call.reader = "parse_signature" /\ WellFormedSignature(input)) =>
        /\ pc = "parsed" => (parsed.ok /\ parsed.consumed = Len(input))
        /\ pc = "rewritten" => out = input

\* a padded B that no writer wrote is read by parse_signature and written back
C3_Witness ==
    /\ pc = "rewritten"
    /\ call.reader = "parse_signature"
    /\ call.tampered
    /\ WellFormedSignature(input)
    /\ Len(input) > 16 + 16 * parsed.header.index_header.num_entries
                       + parsed.header.index_header.header_size

\* the wire encoding of a datum: big-endian items for Int16/32/64, raw bytes for
\* Char/Int8/Bin, UTF-8 and one NUL per string
RECURSIVE WireBytes(_, _)
WireBytes(ty, d) ==
    IF ty = 6 THEN as_bytes(d) \o <<0>>
    ELSE IF ty = 0 \/ d = <<>> THEN <<>>
    ELSE (IF ty \in {1, 7} THEN <<Head(d)>>
          ELSE IF ty = 2 THEN <<Head(d) % 256>>
          ELSE IF ty = 3 THEN <<(Head(d) \div 256) % 256, Head(d) % 256>>
          ELSE IF ty = 4 THEN <<(Head(d) \div 16777216) % 256, (Head(d) \div 65536) % 256,
                                (Head(d) \div 256) % 256, Head(d) % 256>>
          ELSE IF ty = 5 THEN WireBytes(4, Head(d))
          ELSE as_bytes(Head(d)) \o <<0>>)
         \o WireBytes(ty, Tail(d))

WireOf(e) == WireBytes(e.data.type, e.data.v)

\* the entries of the synthesized header and where each datum ends
Entries == header.index_entries
EndOf(k) == Entries[k].offset + Len(WireOf(Entries[k]))

\* C4: in every header returned by from_entries, for every entry the store bytes
\* store[offset .. offset + wire_size(data)] are exactly the encoding of its data,
\* and the data regions of distinct non-empty entries do not overlap.
C4_OffsetsPointAtData ==
    pc = "built" =>
        /\ \A k \in 1..Len(Entries) :
             /\ Entries[k].offset >= 0
             /\ EndOf(k) <= Len(header.store)
             /\ SubSeq(header.store, Entries[k].offset + 1, EndOf(k)) = WireOf(Entries[k])
        /\ \A j, k \in 1..Len(Entries) :
             (j # k /\ WireOf(Entries[j]) # <<>> /\ WireOf(Entries[k]) # <<>>)
                 => (EndOf(j) <= Entries[k].offset \/ EndOf(k) <= Entries[j].offset)

\* an Int32 entry whose data starts after alignment padding
C4_Witness ==
    /\ pc = "built"
    /\ Len(records) = 2
    /\ Entries[3].data.type = 4
    /\ Entries[3].offset > EndOf(2)

\* the alignment of a type code
AlignOf(ty) == IF ty = 3 THEN 2 ELSE IF ty = 4 THEN 4 ELSE IF ty = 5 THEN 8 ELSE 1

\* the store length before real entry k (entry 1 is the sentinel) was appended
StartOf(k) == IF k = 2 THEN 0 ELSE EndOf(k - 1)

\* the list [Int8([1]), Int32([0x11223344])]
S6Records ==
    /\ Len(records) = 2
    /\ records[1].data.type = 2 /\ records[1].data.v = <<1>>
    /\ records[2].data.type = 4 /\ records[2].data.v = <<287454020>>

\* C5: in every header returned by from_entries every Int16 / Int32 / Int64 entry
\* has an offset that is a multiple of 2 / 4 / 8, and the padding before it is the
\* minimal number of 0x00 bytes; [Int8([1]), Int32([0x11223344])] gives the store
\* 01 00 00 00 11 22 33 44 before the sentinel and the second offset 4.
C5_Alignment ==
    pc = "built" =>
        /\ \A k \in 2..Len(Entries) :
             /\ Entries[k].offset % AlignOf(Entries[k].data.type) = 0
             /\ Entries[k].offset >= StartOf(k)
             /\ Entries[k].offset - StartOf(k) < AlignOf(Entries[k].data.type)
             /\ \A i \in (StartOf(k) + 1)..Entries[k].offset : header.store[i] = 0
        /\ S6Records =>
             /\ Take(header.store, 8) = <<1, 0, 0, 0, 17, 34, 51, 68>>
             /\ Entries[3].offset = 4
             /\ Entries[1].offset = 8

\* an Int64 entry after a single Int8: 7 bytes of padding
C5_Witness ==
    /\ pc = "built"
    /\ Len(records) = 2
    /\ Entries[2].data.type = 2 /\ Entries[2].data.v = <<1>>
    /\ Entries[3].data.type = 5
    /\ Entries[3].offset - EndOf(2) = 7

\* C6: from_entries(E, R) returns the sentinel followed by the entries of E in
\* their order with tag, data and num_items unchanged, num_entries = len(entries)
\* = len(E) + 1 and header_size = len(store).
C6_EntriesAndSizes ==
    (pc = "built" /\ call.ctor = "from_entries") =>
        /\ Len(Entries) = Len(records) + 1
        /\ \A k \in 1..Len(records) :
             /\ Entries[k + 1].tag = records[k].tag
             /\ Entries[k + 1].data = records[k].data
             /\ Entries[k + 1].num_items = records[k].num_items
        /\ header.index_header.num_entries = Len(Entries)
        /\ header.index_header.header_size = Len(header.store)

\* a header of two real entries whose store is not a multiple of 8 long
C6_Witness ==
    /\ pc = "built"
    /\ call.ctor = "from_entries"
    /\ Len(records) = 2
    /\ Len(header.store) % 8 # 0

\* the sentinel's payload
Payload == Entries[1].data.v

\* C7: the first entry of from_entries(E, R) is the region sentinel: tag R, a Bin
\* of 16 bytes with num_items 16, placed at the store length reached after the real
\* entries (its payload is the last 16 bytes of the store), and its payload decoded
\* as a directory record has tag R, type 7, count 16, offset -16 * len(entries).
C7_RegionSentinel ==
    (pc = "built" /\ call.ctor = "from_entries") =>
        /\ Entries[1].tag = call.region_tag
        /\ Entries[1].data.type = 7
        /\ Len(Payload) = 16
        /\ Entries[1].num_items = 16
        /\ Entries[1].offset = Len(header.store) - 16
        /\ Entries[1].offset = (IF Len(Entries) = 1 THEN 0 ELSE EndOf(Len(Entries)))
        /\ Drop(header.store, Len(header.store) - 16) = Payload
        /\ be_u32(Payload) = call.region_tag
        /\ be_u32(Drop(Payload, 4)) = 7
        /\ be_i32(Drop(Payload, 8)) = -16 * (Len(records) + 1)
        /\ -16 * (Len(records) + 1) = -16 * Len(Entries)
        /\ be_u32(Drop(Payload, 12)) = 16

\* the sentinel of a header of two real entries
C7_Witness ==
    /\ pc = "built"
    /\ call.ctor = "from_entries"
    /\ Len(records) = 2
    /\ SubSeq(Payload, 9, 12) = <<255, 255, 255, 208>>

\* C8: for every size, md5 digest, sha1 string and pair of signatures the header
\* built by new_signature_header equals from_entries applied to the five entries
\* RPMSIGTAG_SIZE (Int32 [size]), RPMSIGTAG_MD5 (Bin), RPMSIGTAG_SHA1 (StringTag),
\* RPMSIGTAG_RSA (Bin header signature), RPMSIGTAG_PGP (Bin header-and-archive
\* signature), in this order, with sentinel HEADER_SIGNATURES.
C8_BuilderEqualsFromEntries ==
    (pc = "built" /\ call.ctor = "new_signature_header") =>
        header = Header_from_entries(
                    <<IndexEntry_new(RPMSIGTAG_SIZE, 0, Int32(<<call.args[1]>>)),
                      IndexEntry_new(RPMSIGTAG_MD5, 0, Bin(call.args[2])),
                      IndexEntry_new(RPMSIGTAG_SHA1, 0, StringTag(call.args[3])),
                      IndexEntry_new(RPMSIGTAG_RSA, 0, Bin(call.args[4])),
                      IndexEntry_new(RPMSIGTAG_PGP, 0, Bin(call.args[5]))>>,
                    HEADER_SIGNATURES)

\* a signature header built from two different signatures
C8_Witness ==
    /\ pc = "built"
    /\ call.ctor = "new_signature_header"
    /\ call.args[1] = 209348
    /\ call.args[4] # call.args[5]
    /\ Len(header.index_entries) = 6

\* IndexHeader::parse has returned
PreambleParsed == pc = "parsed" /\ call.reader = "IndexHeader::parse"

\* C9: IndexHeader::parse on a 16-byte input succeeds iff byte 0 is 0x8E, byte 1 is
\* 0xAD and byte 3 is 1; otherwise it fails with InvalidMagic carrying the expected
\* and actual value of the first mismatching of bytes 0 and 1, or with
\* UnsupportedHeaderVersion(v) when the magic matches and v # 1. On success
\* num_entries and header_size are the big-endian u32 at bytes 8..12 and 12..16.
C9_IndexHeaderParse ==
    PreambleParsed =>
        /\ parsed.ok <=> (input[1] = 142 /\ input[2] = 173 /\ input[4] = 1)
        /\ input[1] # 142 =>
             (parsed.err = "InvalidMagic" /\ parsed.expected = 142
                 /\ parsed.actual = input[1])
        /\ (input[1] = 142 /\ input[2] # 173) =>
             (parsed.err = "InvalidMagic" /\ parsed.expected = 173
                 /\ parsed.actual = input[2])
        /\ (input[1] = 142 /\ input[2] = 173 /\ input[4] # 1) =>
             (parsed.err = "UnsupportedHeaderVersion" /\ parsed.version = input[4])
        /\ parsed.ok =>
             /\ be32(parsed.v.num_entries) = SubSeq(input, 9, 12)
             /\ be32(parsed.v.header_size) = SubSeq(input, 13, 16)

\* a preamble accepted with a foreign third magic byte and non-zero reserved bytes
C9_Witness ==
    /\ PreambleParsed
    /\ parsed.ok
    /\ input[3] # 232
    /\ SubSeq(input, 5, 8) # Zeros(4)
    /\ parsed.v.num_entries = 258

\* the data of the first entry with the tag, as get_file_names looks it up
Holds(tag, types) ==
    \E i \in 1..Len(Entries) :
        /\ Entries[i].tag = tag
        /\ Entries[i].data.type \in types
        /\ \A j \in 1..(i - 1) : Entries[j].tag # tag

Held(tag) ==
    Entries[CHOOSE i \in 1..Len(Entries) :
                Entries[i].tag = tag /\ \A j \in 1..(i - 1) : Entries[j].tag # tag].data.v

FileNamesAsked ==
    /\ pc = "got"
    /\ Holds(RPMTAG_BASENAMES, {8, 9})
    /\ Holds(RPMTAG_DIRINDEXES, {4})
    /\ Holds(RPMTAG_DIRNAMES, {8, 9})

Concatenated(base, idx, dirs) ==
    /\ (\A i \in 1..Len(idx) : idx[i] >= 0 /\ idx[i] < Len(dirs)) =>
          /\ parsed.ok
          /\ Len(parsed.v) = Len(base)
          /\ \A i \in 1..Len(base) : parsed.v[i] = dirs[idx[i] + 1] \o base[i]
    /\ (\E i \in 1..Len(idx) : idx[i] >= Len(dirs)) =>
          /\ ~parsed.ok
          /\ parsed.err = "InvalidTagIndex"
          /\ parsed.tag = RPMTAG_DIRINDEXES
          /\ parsed.bound = Len(dirs)
          /\ \E i \in 1..Len(idx) : idx[i] >= Len(dirs) /\ parsed.index = idx[i]

\* C10: get_file_names on a header holding BASENAMES (string array), DIRINDEXES
\* (Int32 array) and DIRNAMES (string array): if every index is in
\* 0 .. len(DIRNAMES)-1 it returns one path per base name, in order, path i being
\* the concatenation DIRNAMES[DIRINDEXES[i]] + BASENAMES[i]; if any index is
\* >= len(DIRNAMES) it fails with InvalidTagIndex{RPMTAG_DIRINDEXES, that index,
\* len(DIRNAMES)}.
C10_FileNames ==
    FileNamesAsked =>
        Concatenated(Held(RPMTAG_BASENAMES), Held(RPMTAG_DIRINDEXES),
                     Held(RPMTAG_DIRNAMES))

\* a typed accessor has returned
EntryAsked == pc = "got" /\ call.reader \in Accessors

\* the variants an accessor accepts and the name Display gives a variant
ExpectedTypes(x) ==
    IF x = "binary" THEN {7}
    ELSE IF x = "string" THEN {6}
    ELSE IF x \in {"i32", "i32 array"} THEN {4}
    ELSE IF x = "i64" THEN {5}
    ELSE {8, 9}

DisplayName(ty) ==
    <<"Null", "Char", "i8", "i16", "i32", "i64", "String", "Bin",
      "StringArray", "I18NString">>[ty + 1]

\* the positions of the entries with the tag asked for, and the first of them
Hits == {i \in 1..Len(Entries) : Entries[i].tag = call.args[1]}
FirstHit == Entries[CHOOSE i \in Hits : \A j \in Hits : i <= j]

NotFound == ~parsed.ok /\ parsed.err = "TagNotFound" /\ parsed.tag = call.args[1]

Unexpected ==
    /\ ~parsed.ok
    /\ parsed.err = "UnexpectedTagDataType"
    /\ parsed.expected_data_type = call.reader
    /\ parsed.actual_data_type = DisplayName(FirstHit.data.type)
    /\ parsed.tag = call.args[1]

\* the value the accessor hands back: the first item for i32 and i64
Returned ==
    /\ parsed.ok
    /\ parsed.v = (IF call.reader \in {"i32", "i64"} THEN FirstHit.data.v[1]
                   ELSE FirstHit.data.v)

\* an Int32 / Int64 entry without items asked for its first item
NoFirstItem ==
    /\ call.reader \in {"i32", "i64"}
    /\ FirstHit.data.type \in ExpectedTypes(call.reader)
    /\ FirstHit.data.v = <<>>

\* C11 as stated: each typed accessor looks at the first entry with the tag; it
\* returns TagNotFound(tag) exactly when no entry has the tag, UnexpectedTagDataType
\* exactly when that entry's variant is not the expected type, and otherwise that
\* entry's value (for i32/i64 the first item).
C11_AccessorsAsStated ==
    EntryAsked =>
        IF Hits = {} THEN NotFound
        ELSE IF FirstHit.data.type \notin ExpectedTypes(call.reader) THEN Unexpected
        ELSE Returned

\* C11: each typed accessor looks at the first entry with the tag; it returns
\* TagNotFound(tag) exactly when no entry has the tag, UnexpectedTagDataType{expected,
\* actual, tag} exactly when that entry's variant is not the expected type or, for
\* the i32 and i64 accessors, it has no items, and otherwise that entry's value.
C11_Accessors ==
    EntryAsked =>
        IF Hits = {} THEN NotFound
        ELSE IF FirstHit.data.type \notin ExpectedTypes(call.reader) THEN Unexpected
        ELSE IF NoFirstItem THEN Unexpected
        ELSE Returned

\* the i32 accessor on a tag held twice: first an Int32, then a string
C11_Witness ==
    /\ EntryAsked
    /\ call.reader = "i32"
    /\ Cardinality(Hits) = 2
    /\ FirstHit.data.type = 4
    /\ Entries[3].data.type = 6
    /\ parsed.ok
    /\ parsed.v = 7

\* a synthesized header has been written by the writer `w`
Written(w) == pc = "written" /\ call.writer = w

\* the length of write(H) for a header whose index_header matches it
WrittenSize ==
    16 + 16 * header.index_header.num_entries + header.index_header.header_size

\* the tail padding of a signature header
TailPad == (8 - (header.index_header.header_size % 8)) % 8

\* C12: write_signature emits the bytes of write(H) followed by p zero bytes, p = 0
\* if header_size % 8 = 0 and 8 - header_size % 8 otherwise; 0 <= p <= 7, the total
\* 16 + 16 * num_entries + header_size + p is a multiple of 8 and the padding is not
\* counted in header_size. The generic write emits no tail padding.
C12_SignaturePadding ==
    /\ Written("write_signature") =>
         /\ TailPad = (IF header.index_header.header_size % 8 = 0 THEN 0
                       ELSE 8 - (header.index_header.header_size % 8))
         /\ TailPad \in 0..7
         /\ Len(out) = WrittenSize + TailPad
         /\ Len(out) % 8 = 0
         /\ Take(out, WrittenSize) = Header_write(header)
         /\ Drop(out, WrittenSize) = Zeros(TailPad)
         /\ header.index_header.header_size = Len(header.store)
    /\ Written("write") =>
         /\ Len(out) = WrittenSize
         /\ Drop(out, 16 + 16 * header.index_header.num_entries) = header.store

\* a signature header whose store is one byte past a multiple of 8: seven pad bytes
C12_Witness ==
    /\ Written("write_signature")
    /\ header.index_header.header_size % 8 = 1
    /\ Len(out) = WrittenSize + 7

\* Header::parse (alone or inside parse_signature) has ended on the reader's bytes
ParseEnded == pc = "parsed" /\ call.reader \in {"parse", "parse_signature"}

\* C13: for every input byte sequence Header::parse ends by returning Ok(header) or
\* an Err value to the caller and never aborts: an offset outside the store, items
\* running past the end of the store and a StringArray element without a NUL each
\* yield an error result, and the two internal assertions cannot fail.
C13_ParseNeverAborts ==
    ParseEnded => (parsed.ok \/ parsed.err # "panic")

\* the size of a header on the wire, and the pad that follows a signature header
WireSize(h) == 16 + 16 * h.index_header.num_entries + h.index_header.header_size
PadOf(h) == (8 - (h.index_header.header_size % 8)) % 8

\* the reader of a stream after parse_signature, and after the parse that follows
SignatureRead == pc = "parsed_signature" /\ call.writer = "stream"
HeaderRead == pc = "parsed" /\ call.writer = "stream"

\* the bytes each parser took from the reader, and what it left unread
Sequenced ==
    /\ SignatureRead =>
         /\ parsed.ok
         /\ parsed.consumed = WireSize(signature) + PadOf(signature)
         /\ PadOf(signature) \in 0..7
         /\ input = Drop(out, WireSize(signature) + PadOf(signature))
    /\ HeaderRead =>
         /\ parsed.ok
         /\ parsed.consumed = WireSize(header)
         /\ input = call.args[1]
         /\ Len(out) = WireSize(signature) + PadOf(signature) + WireSize(header)
                          + Len(call.args[1])

\* C14: a successful parse_signature consumes 16 + 16 * num_entries + header_size
\* + p bytes of the reader and a successful parse 16 + 16 * num_entries +
\* header_size bytes, leaving all later bytes unread; so writing write_signature(S)
\* then write(M) into one stream and reading it with parse_signature then parse
\* returns S and then M.
C14_StreamSequencing ==
    /\ Sequenced
    /\ SignatureRead => parsed.header = signature
    /\ HeaderRead => parsed.header = header

\* the sequencing alone: the bytes consumed and left, whatever the headers hold
C14_ConsumedAndLeft == Sequenced

\* the stream reads back as written unless the main header holds an I18NString of
\* two or more elements
C14_ExceptLongI18N ==
    (\A k \in 1..Len(records) :
        ~(records[k].data.type = 9 /\ Len(records[k].data.v) >= 2))
        => C14_StreamSequencing

=============================================================================
